---- MODULE Spec2Model ----
(***************************************************************************)
(* send_ai_daily.py: the RSS -> score -> report -> Feishu pipeline of      *)
(* main(), with the fingerprint file data/sent_hashes.txt as its only      *)
(* durable state.                                                          *)
(*                                                                         *)
(* Modelling conventions                                                   *)
(*   - a link is a natural number; 0 is the empty string "" (falsy);       *)
(*   - a fingerprint is a natural number; hash_link is an injective map    *)
(*     on the links of the model (below 1009) that does not keep their     *)
(*     order (SHA-256 without collisions);                                 *)
(*   - time is in whole seconds; clock is datetime.now(timezone.utc);      *)
(*   - a "published" string is a record: "aware" (wall-clock time with a   *)
(*     UTC offset), "naive" (wall-clock time, no offset) or "garbage"      *)
(*     (date_parser.parse raises);                                         *)
(*   - the oracle (LLMClient.call_json), the feed servers and the Feishu   *)
(*     webhook are the environment: their answers are chosen with \E.      *)
(***************************************************************************)
EXTENDS Integers, Sequences, FiniteSets, TLC

\* ------------------------------------------------------------ constants
MAX_CANDIDATES == 60
TOP_N == 3
HOURS_WINDOW == 48
MAX_WORKERS == 5
\* for attempt in range(3) of send_to_feishu
SEND_ATTEMPTS == 3
\* if len(summary) > 500: summary = summary[:500] + "..."
SUMMARY_CUT == 500
\* len("...")
MARKER_LEN == 3

\* ------------------------------------------------------------ bounds
\* runs of main() in one behaviour
MaxRuns == 2
\* configured RSS_URLS
NumSources == 2
\* seconds the clock may advance in one behaviour
MaxClock == 1

\* entries of the "scores" array the scoring oracle may return
MaxResp == 4
\* the oracle's scores are 1..MaxScore
MaxScore == 2
\* entries one large feed may carry
MaxFeedLen == 100
\* characters of the longest summary a feed may carry
MaxSummaryLen == 502
\* items of the "items" array the report oracle may return
MaxItems == 2
\* configured RSS_URLS when the worker pool is looked at
MaxPoolSources == 6

\* timedelta(hours=hours) in seconds
WindowSeconds(hours) == hours * 3600

\* ------------------------------------------------------------ helpers
Min(a, b) == IF a < b THEN a ELSE b

Range(s) == {s[i] : i \in 1..Len(s)}

RECURSIVE SetToSortedSeq(_)
\* sorted(hashes)
SetToSortedSeq(S) ==
  IF S = {} THEN <<>>
  ELSE LET m == CHOOSE x \in S : \A y \in S : x <= y
       IN <<m>> \o SetToSortedSeq(S \ {m})

\* ------------------------------------------------------------ dedup store
\* The file data/sent_hashes.txt: absent, or its lines.
AbsentFile == [exists |-> FALSE, lines |-> <<>>]

FileOf(lines) == [exists |-> TRUE, lines |-> lines]

\* load_sent_hashes: the set read
LoadedSet(f) == IF f.exists THEN Range(f.lines) ELSE {}

\* load_sent_hashes: the file afterwards (touch when absent)
LoadedFile(f) == IF f.exists THEN f ELSE FileOf(<<>>)

\* save_sent_hashes: the file written, one fingerprint per line, sorted
SavedFile(hashes) == FileOf(SetToSortedSeq(hashes))

\* hashlib.sha256(link.encode("utf-8")).hexdigest()
hash_link(link) == (link * 37 + 11) % 1009

\* ------------------------------------------------------------ recency
Aware(wall, off) == [kind |-> "aware", wall |-> wall, off |-> off]
Naive(wall) == [kind |-> "naive", wall |-> wall, off |-> 0]
Garbage == [kind |-> "garbage", wall |-> 0, off |-> 0]

\* date_parser.parse + replace(tzinfo=utc) when naive: the instant in UTC seconds
Instant(p) == IF p.kind = "aware" THEN p.wall - p.off ELSE p.wall

\* mutant: the comparison made strict
is_recent_strict(published, hours, now) ==
  IF published.kind = "garbage" THEN FALSE
  ELSE (now - Instant(published)) < WindowSeconds(hours)

is_recent(published, hours, now) ==
  IF published.kind = "garbage" THEN FALSE
  ELSE (now - Instant(published)) <= WindowSeconds(hours)

\* ------------------------------------------------------------ feeds
\* A parsed feed entry: link, published, and whether its link is a non-str
\* value, so that hash_link(link) raises inside the loop of fetch_single_feed.
\* A summary is the number of characters of the feed's text it holds and the
\* number of characters appended to them.
Text(n) == [chars |-> n, marker |-> 0]

\* len(summary)
SummaryLen(summary) == summary.chars + summary.marker

\* summary[:500] + "..." when len(summary) > 500
StoredSummary(summary) ==
  IF SummaryLen(summary) > SUMMARY_CUT
    THEN [chars |-> Min(summary.chars, SUMMARY_CUT), marker |-> MARKER_LEN]
    ELSE summary

SummaryEntry(link, published, n) ==
  [link |-> link, published |-> published, raises |-> FALSE, summary |-> Text(n)]

\* an entry without summary and description: entry.get(...) gives ""
Entry(link, published) == SummaryEntry(link, published, 0)

Poison(link, published) ==
  [link |-> link, published |-> published, raises |-> TRUE, summary |-> Text(0)]

\* A candidate dict of fetch_single_feed (the title plays no part here)
Candidate(entry) ==
  [link |-> entry.link, published |-> entry.published,
   hash |-> hash_link(entry.link), summary |-> StoredSummary(entry.summary)]

\* The loop "for entry in feed.entries" of fetch_single_feed and the except
\* clause around it. An entry without link is skipped before anything can
\* raise; the first entry that raises ends the loop, and the function falls
\* through to "return candidates" with what was appended before it. Of the
\* entries reached, those with an unsent fingerprint and a recent date are
\* appended, in feed order.
ProcessEntries(entries, sent_hashes, now) ==
  LET Raising == {i \in 1..Len(entries) : entries[i].link # 0 /\ entries[i].raises}
      stop == IF Raising = {} THEN Len(entries) + 1
              ELSE CHOOSE i \in Raising : \A j \in Raising : i <= j
      reached == SubSeq(entries, 1, stop - 1)
      Appended(entry) ==
        /\ entry.link # 0
        /\ hash_link(entry.link) \notin sent_hashes
        /\ is_recent(entry.published, HOURS_WINDOW, now)
      kept == SelectSeq(reached, Appended)
  IN [i \in 1..Len(kept) |-> Candidate(kept[i])]

\* fetch_single_feed: up is whether requests.get / raise_for_status succeeded
fetch_single_feed(entries, up, sent_hashes, now) ==
  IF ~up THEN <<>> ELSE ProcessEntries(entries, sent_hashes, now)

\* mutant: the slice taken from the end, all_candidates[-MAX_CANDIDATES:]
TruncateTail(all_candidates) ==
  IF Len(all_candidates) > MAX_CANDIDATES
    THEN SubSeq(all_candidates, Len(all_candidates) - MAX_CANDIDATES + 1,
                Len(all_candidates))
    ELSE all_candidates

\* all_candidates[:MAX_CANDIDATES] when longer
Truncate(all_candidates) ==
  IF Len(all_candidates) > MAX_CANDIDATES
    THEN SubSeq(all_candidates, 1, MAX_CANDIDATES)
    ELSE all_candidates

\* ------------------------------------------------------------ scoring
RECURSIVE InsertByScore(_, _)
\* x behind every element whose score is >= x.score
InsertByScore(sorted, x) ==
  IF sorted = <<>> THEN <<x>>
  ELSE IF Head(sorted).score >= x.score
    THEN <<Head(sorted)>> \o InsertByScore(Tail(sorted), x)
    ELSE <<x>> \o sorted

RECURSIVE SortByScoreDesc(_)
\* scores.sort(key=score, reverse=True): stable, descending
SortByScoreDesc(scores) ==
  IF scores = <<>> THEN <<>>
  ELSE InsertByScore(SortByScoreDesc(SubSeq(scores, 1, Len(scores) - 1)),
                     scores[Len(scores)])

\* link_map = {e["link"]: e for e in entries}: the last entry with the link
LinkMap(entries, link) ==
  entries[CHOOSE i \in 1..Len(entries) :
            /\ entries[i].link = link
            /\ \A j \in (i + 1)..Len(entries) : entries[j].link # link]

Scored(entry, s) ==
  [link |-> entry.link, published |-> entry.published, hash |-> entry.hash,
   summary |-> entry.summary, score |-> s.score]

RECURSIVE FillEntries(_, _)
\* for s in top_scores: if link in link_map: top_entries.append(...)
FillEntries(top_scores, entries) ==
  IF top_scores = <<>> THEN <<>>
  ELSE LET s == Head(top_scores)
           rest == FillEntries(Tail(top_scores), entries)
       IN IF \E i \in 1..Len(entries) : entries[i].link = s.link
            THEN <<Scored(LinkMap(entries, s.link), s)>> \o rest
            ELSE rest

\* score_entries after a call_json that returned {"scores": scores}
score_entries(entries, scores) ==
  IF entries = <<>> THEN <<>>
  ELSE LET sorted == SortByScoreDesc(scores)
           top_scores == SubSeq(sorted, 1, Min(TOP_N, Len(sorted)))
       IN FillEntries(top_scores, entries)

\* ------------------------------------------------------------ the report
\* A JSON object is a function from the keys it has to their values. The
\* value of "items" is List(<<item, ...>>) or a JSON value that is no array
\* (null); every other value is a string, the date a day number.
List(elems) == [list |-> TRUE, elems |-> elems]
JsonNull == [list |-> FALSE, elems |-> <<>>]

\* the keys of an item in the "JSON contract" of the report prompt
ItemFields ==
  {"title", "publish_date", "source_type", "source_name", "erp_relevance",
   "summary", "key_facts", "implementation_method", "exploration_direction",
   "link"}

\* the keys validate_and_fix_report fills, with the fixed strings it uses
\* (in the source: "未知标题", "未知", "🔵 低", "暂无摘要")
ItemDefault ==
  [title |-> "unknown title", source_type |-> "unknown",
   erp_relevance |-> "blue low", summary |-> "no summary"]

\* "AI 技术动态"
DefaultTheme == "AI tech news"

\* datetime.now(timezone(timedelta(hours=8))).strftime("%Y-%m-%d"): the civil
\* date at UTC+8, as a day number
Today(now) == (now + 8 * 3600) \div 86400

\* mutant: the key is assigned whether or not it is there
SetDefaultAlways(d, k, v) == (k :> v) @@ d

\* if k not in d: d[k] = v
SetDefault(d, k, v) == IF k \in DOMAIN d THEN d ELSE d @@ (k :> v)

\* the body of "for item in report['items']"
FixItem(item) ==
  LET i1 == SetDefault(item, "title", ItemDefault.title)
      i2 == SetDefault(i1, "source_type", ItemDefault.source_type)
      i3 == SetDefault(i2, "erp_relevance", ItemDefault.erp_relevance)
  IN SetDefault(i3, "summary", ItemDefault.summary)

validate_and_fix_report(report, today) ==
  LET r1 == SetDefault(report, "date", today)
      r2 == SetDefault(r1, "theme", DefaultTheme)
      r3 == IF "items" \notin DOMAIN r2 \/ ~r2["items"].list
              THEN ("items" :> List(<<>>)) @@ r2
              ELSE r2
      items == r3["items"].elems
  IN ("items" :> List([i \in 1..Len(items) |-> FixItem(items[i])])) @@ r3

\* item.get(key): None when the key is absent
Get(item, key) == IF key \in DOMAIN item THEN item[key] ELSE "None"

\* the fields send_to_feishu writes into the card text of one item
CardItem(item) == [f \in ItemFields |-> Get(item, f)]

\* ------------------------------------------------------------ environment
W == WindowSeconds(HOURS_WINDOW)

\* no link; fresh; exactly now - window when read at clock 0, written with a
\* +08:00 offset; unparsable date
FeedA == << Entry(0, Naive(0)), Entry(1, Aware(0, 0)),
            Entry(2, Aware(28800 - W, 28800)), Entry(4, Garbage) >>

\* link 1 again; at the edge when read at clock 0 and one second older than
\* the window when read at clock 1 (naive, so UTC); an entry whose processing
\* raises; fresh, behind it
FeedB == << Entry(1, Naive(0)), Entry(3, Naive(0 - W)),
            Poison(5, Naive(0)), Entry(4, Naive(0)) >>

FeedChoices == {FeedA, FeedB}

\* links no feed carries, which the oracle may still name
UnknownLinks == {6}

\* the file before the first run: absent, or left by earlier runs
InitFiles == {AbsentFile, SavedFile({hash_link(1), hash_link(6)})}

Links(entries) == {entries[i].link : i \in 1..Len(entries)}

ScoreOf(link) == (link * 3) % 5

\* the oracle's "scores" array naming the links of L, in ascending link order
ResponseFor(L) ==
  LET sorted == SetToSortedSeq(L)
  IN [i \in 1..Len(sorted) |-> [link |-> sorted[i], score |-> ScoreOf(sorted[i])]]

OracleScores(entries) ==
  {ResponseFor(L) : L \in SUBSET (Links(entries) \cup UnknownLinks)}

\* an item as the oracle writes it, with the keys of missing left out
Item(missing) == [f \in ItemFields \ missing |-> "oracle"]

\* what the oracle answers to the report prompt for these entries: the
\* contract followed to the letter, or no theme and items without "summary"
\* and "link"
OracleReports(entries, today) ==
  {[date |-> today, theme |-> "oracle",
    items |-> List([i \in 1..Len(entries) |-> Item({})])],
   [date |-> today,
    items |-> List([i \in 1..Len(entries) |-> Item({"summary", "link"})])]}

\* ------------------------------------------------------------ state
VARIABLES
  feeds,          \* RSS_URLS and what each URL serves: [1..n -> feed entries]
  webhook,        \* FEISHU_WEBHOOK_URL is configured
  file,           \* data/sent_hashes.txt
  clock,          \* datetime.now(timezone.utc), seconds
  run,            \* invocation of main(), 1..MaxRuns
  pc,             \* where main() is
  sent_hashes,    \* fetch_rss_entries' sent_hashes
  task,           \* per URL: idle, queued, running, finished, collected
  result,         \* per URL: what its fetch_single_feed returned
  all_candidates, \* fetch_rss_entries' all_candidates
  candidates,     \* main's candidates
  top_entries,    \* main's top_entries
  posts,          \* outcome of each requests.post of send_to_feishu so far
  sleeps,         \* each time.sleep of send_to_feishu so far
  delivery,       \* none, ok (pushed), failed (final failure logged), skipped
  report,         \* main's report
  log             \* history of the run: what the claims are stated over

vars == <<feeds, webhook, file, clock, run, pc, sent_hashes, task, result,
          all_candidates, candidates, top_entries, posts, sleeps, delivery,
          report, log>>

\* main has no report (yet)
NoReport == <<>>

URLS == DOMAIN feeds

\* log of a run that has not started
NoLog ==
  [traced |-> TRUE,      \* the history of the fetch tasks is kept
   file0 |-> {},         \* fingerprints in the file when the run began
   loads |-> 0,          \* calls of load_sent_hashes
   saves |-> 0,          \* calls of save_sent_hashes
   scoreCalls |-> 0,     \* call_json(SYSTEM_PROMPT_SCORE, ...)
   synthCalls |-> 0,     \* call_json(SYSTEM_PROMPT_REPORT, ...)
   scoreFailed |-> FALSE,
   synthFailed |-> FALSE,
   synthReturned |-> FALSE,
   scores |-> <<>>,      \* the "scores" array the oracle returned
   response |-> NoReport, \* the report the oracle returned, before repair
   up |-> {},            \* URLs whose request succeeded
   readAt |-> <<>>,      \* clock reading of each finished fetch, by URL
   order |-> <<>>,       \* URLs in the order main collected them
   prevSaved |-> {}]     \* fingerprints the previous run saved, if it saved

FreshLog(f, saved) ==
  [NoLog EXCEPT !.file0 = LoadedSet(f),
                !.readAt = [u \in URLS |-> 0],
                !.prevSaved = saved]

\* The state when main() is first started, for a set of configurations
InitVars(configs, files, traced) ==
  /\ feeds \in configs
  /\ webhook \in BOOLEAN
  /\ file \in files
  /\ clock = 0
  /\ run = 1
  /\ pc = "main"
  /\ sent_hashes = {}
  /\ task = [u \in URLS |-> "idle"]
  /\ result = [u \in URLS |-> <<>>]
  /\ all_candidates = <<>>
  /\ candidates = <<>>
  /\ top_entries = <<>>
  /\ posts = <<>>
  /\ sleeps = <<>>
  /\ delivery = "none"
  /\ report = NoReport
  /\ log = [FreshLog(file, {}) EXCEPT !.traced = traced]

InitWith(configs, files) == InitVars(configs, files, TRUE)

\* 0..NumSources configured URLs, each serving one of FeedChoices
Configs == UNION {[1..n -> FeedChoices] : n \in 0..NumSources}

Init == InitWith(Configs, InitFiles)

\* ------------------------------------------------------------ fetch_rss_entries
Running == {u \in URLS : task[u] = "running"}

\* if not RSS_URLS: return []
NoSources ==
  /\ pc = "main"
  /\ URLS = {}
  /\ pc' = "fetched"
  /\ UNCHANGED <<feeds, report, webhook, file, clock, run, sent_hashes, task, result,
                 all_candidates, candidates, top_entries, posts, sleeps,
                 delivery, log>>

\* mutant: the fingerprint file is not consulted
BeginFetchNoLoad ==
  /\ pc = "main"
  /\ URLS # {}
  /\ sent_hashes' = {}
  /\ file' = LoadedFile(file)
  /\ task' = [u \in URLS |-> "queued"]
  /\ log' = [log EXCEPT !.loads = @ + 1]
  /\ pc' = "fetching"
  /\ UNCHANGED <<feeds, report, webhook, clock, run, result, all_candidates, candidates,
                 top_entries, posts, sleeps, delivery>>

\* load_sent_hashes(), then executor.submit for every URL
BeginFetch ==
  /\ pc = "main"
  /\ URLS # {}
  /\ sent_hashes' = LoadedSet(file)
  /\ file' = LoadedFile(file)
  /\ task' = [u \in URLS |-> "queued"]
  /\ log' = [log EXCEPT !.loads = @ + 1]
  /\ pc' = "fetching"
  /\ UNCHANGED <<feeds, report, webhook, clock, run, result, all_candidates, candidates,
                 top_entries, posts, sleeps, delivery>>

\* mutant: a thread for every submitted task
TaskStartUnbounded(u) ==
  /\ pc = "fetching"
  /\ task[u] = "queued"
  /\ task' = [task EXCEPT ![u] = "running"]
  /\ UNCHANGED <<feeds, report, webhook, file, clock, run, pc, sent_hashes, result,
                 all_candidates, candidates, top_entries, posts, sleeps,
                 delivery, log>>

\* a worker of the pool (max_workers=MAX_WORKERS) takes a submitted task
TaskStart(u) ==
  /\ pc = "fetching"
  /\ task[u] = "queued"
  /\ Cardinality(Running) < MAX_WORKERS
  /\ task' = [task EXCEPT ![u] = "running"]
  /\ UNCHANGED <<feeds, report, webhook, file, clock, run, pc, sent_hashes, result,
                 all_candidates, candidates, top_entries, posts, sleeps,
                 delivery, log>>

\* mutant: each worker loads the fingerprint file itself
TaskFinishReload(u) ==
  /\ pc = "fetching"
  /\ task[u] = "running"
  /\ \E up \in BOOLEAN, now \in clock..Min(clock + 1, MaxClock) :
       /\ clock' = now
       /\ result' = [result EXCEPT
                       ![u] = fetch_single_feed(feeds[u], up, LoadedSet(file), now)]
       /\ log' = IF log.traced
                   THEN [log EXCEPT !.up = IF up THEN @ \cup {u} ELSE @,
                                    !.readAt = [@ EXCEPT ![u] = now],
                                    !.loads = @ + 1]
                   ELSE [log EXCEPT !.loads = @ + 1]
  /\ task' = [task EXCEPT ![u] = "finished"]
  /\ UNCHANGED <<feeds, report, webhook, file, run, pc, sent_hashes, all_candidates,
                 candidates, top_entries, posts, sleeps, delivery>>

\* fetch_single_feed(url, sent_hashes) runs to its return. The entries of one
\* feed are tested against one reading of the clock (is_recent reads
\* datetime.now for each entry, within the same second).
TaskFinish(u) ==
  /\ pc = "fetching"
  /\ task[u] = "running"
  /\ \E up \in BOOLEAN, now \in clock..Min(clock + 1, MaxClock) :
       /\ clock' = now
       /\ result' = [result EXCEPT
                       ![u] = fetch_single_feed(feeds[u], up, sent_hashes, now)]
       /\ log' = IF log.traced
                   THEN [log EXCEPT !.up = IF up THEN @ \cup {u} ELSE @,
                                    !.readAt = [@ EXCEPT ![u] = now]]
                   ELSE log
  /\ task' = [task EXCEPT ![u] = "finished"]
  /\ UNCHANGED <<feeds, report, webhook, file, run, pc, sent_hashes, all_candidates,
                 candidates, top_entries, posts, sleeps, delivery>>

\* as_completed yields the future: all_candidates.extend(future.result())
Collect(u) ==
  /\ pc = "fetching"
  /\ task[u] = "finished"
  /\ all_candidates' = all_candidates \o result[u]
  /\ task' = [task EXCEPT ![u] = "collected"]
  /\ log' = IF log.traced THEN [log EXCEPT !.order = Append(@, u)] ELSE log
  /\ UNCHANGED <<feeds, report, webhook, file, clock, run, pc, sent_hashes, result,
                 candidates, top_entries, posts, sleeps, delivery>>

\* mutant: the loop is left as soon as the cap is reached
FetchReturnEarly ==
  /\ pc = "fetching"
  /\ \/ \A u \in URLS : task[u] = "collected"
     \/ Len(all_candidates) >= MAX_CANDIDATES
  /\ candidates' = Truncate(all_candidates)
  /\ pc' = "fetched"
  /\ UNCHANGED <<feeds, report, webhook, file, clock, run, sent_hashes, task, result,
                 all_candidates, top_entries, posts, sleeps, delivery, log>>

\* the with block ends (every future is done), the global truncation, return
FetchReturn ==
  /\ pc = "fetching"
  /\ \A u \in URLS : task[u] = "collected"
  /\ candidates' = Truncate(all_candidates)
  /\ pc' = "fetched"
  /\ UNCHANGED <<feeds, report, webhook, file, clock, run, sent_hashes, task, result,
                 all_candidates, top_entries, posts, sleeps, delivery, log>>

\* main: "if not candidates: return". The frame of fetch_rss_entries
\* (sent_hashes, the futures, all_candidates) is gone, and its history with it.
CheckCandidates ==
  /\ pc = "fetched"
  /\ pc' = IF candidates = <<>> THEN "done" ELSE "score"
  /\ sent_hashes' = {}
  /\ task' = [u \in URLS |-> "idle"]
  /\ result' = [u \in URLS |-> <<>>]
  /\ all_candidates' = <<>>
  /\ log' = [log EXCEPT !.up = {}, !.readAt = [u \in URLS |-> 0], !.order = <<>>]
  /\ UNCHANGED <<feeds, report, webhook, file, clock, run, candidates, top_entries,
                 posts, sleeps, delivery>>

\* ------------------------------------------------------------ score_entries
\* call_json logs the failure and calls sys.exit(1)
ScoreFail ==
  /\ pc = "score"
  /\ log' = [log EXCEPT !.scoreCalls = @ + 1, !.scoreFailed = TRUE]
  /\ pc' = "exited"
  /\ UNCHANGED <<feeds, report, webhook, file, clock, run, sent_hashes, task, result,
                 all_candidates, candidates, top_entries, posts, sleeps, delivery>>

\* call_json returns JSON of another shape (no dict, an element without
\* "link"): score_entries raises and main() ends with the traceback
ScoreCrash ==
  /\ pc = "score"
  /\ log' = [log EXCEPT !.scoreCalls = @ + 1, !.scoreFailed = TRUE]
  /\ pc' = "crashed"
  /\ UNCHANGED <<feeds, report, webhook, file, clock, run, sent_hashes, task, result,
                 all_candidates, candidates, top_entries, posts, sleeps, delivery>>

\* call_json returns {"scores": scores} and score_entries returns
ScoreReturn(scores) ==
  /\ pc = "score"
  /\ top_entries' = score_entries(candidates, scores)
  /\ log' = [log EXCEPT !.scoreCalls = @ + 1, !.scores = scores]
  /\ pc' = "scored"
  /\ UNCHANGED <<feeds, report, webhook, file, clock, run, sent_hashes, task, result,
                 all_candidates, candidates, posts, sleeps, delivery>>

\* mutant: main goes on with an empty top_entries
CheckTopEntriesAlways ==
  /\ pc = "scored"
  /\ pc' = "synth"
  /\ log' = [log EXCEPT !.scores = <<>>]
  /\ UNCHANGED <<feeds, report, webhook, file, clock, run, sent_hashes, task, result,
                 all_candidates, candidates, top_entries, posts, sleeps, delivery>>

\* main: "if not top_entries: return". The frame of score_entries (scores)
\* is gone.
CheckTopEntries ==
  /\ pc = "scored"
  /\ pc' = IF top_entries = <<>> THEN "done" ELSE "synth"
  /\ log' = [log EXCEPT !.scores = <<>>]
  /\ UNCHANGED <<feeds, report, webhook, file, clock, run, sent_hashes, task, result,
                 all_candidates, candidates, top_entries, posts, sleeps, delivery>>

\* ------------------------------------------------------------ generate_daily_report
\* mutant: the failure is swallowed and main goes on to send
SynthFailSwallowed ==
  /\ pc = "synth"
  /\ log' = [log EXCEPT !.synthCalls = @ + 1, !.synthFailed = TRUE]
  /\ pc' = "send"
  /\ UNCHANGED <<feeds, report, webhook, file, clock, run, sent_hashes, task, result,
                 all_candidates, candidates, top_entries, posts, sleeps, delivery>>

SynthFail ==
  /\ pc = "synth"
  /\ log' = [log EXCEPT !.synthCalls = @ + 1, !.synthFailed = TRUE]
  /\ pc' = "exited"
  /\ UNCHANGED <<feeds, report, webhook, file, clock, run, sent_hashes, task, result,
                 all_candidates, candidates, top_entries, posts, sleeps, delivery>>

\* the report is no dict, or an item is none: validate_and_fix_report raises
SynthCrash ==
  /\ pc = "synth"
  /\ log' = [log EXCEPT !.synthCalls = @ + 1, !.synthFailed = TRUE]
  /\ pc' = "crashed"
  /\ UNCHANGED <<feeds, report, webhook, file, clock, run, sent_hashes, task, result,
                 all_candidates, candidates, top_entries, posts, sleeps, delivery>>

\* call_json returns response; generate_daily_report returns it repaired
\* and main prints it
SynthReturn(response) ==
  /\ pc = "synth"
  /\ report' = validate_and_fix_report(response, Today(clock))
  /\ log' = [log EXCEPT !.synthCalls = @ + 1, !.synthReturned = TRUE,
                        !.response = response]
  /\ pc' = "send"
  /\ UNCHANGED <<feeds, webhook, file, clock, run, sent_hashes, task, result,
                 all_candidates, candidates, top_entries, posts, sleeps, delivery>>

\* ------------------------------------------------------------ send_to_feishu
RECURSIVE Pow2(_)
Pow2(n) == IF n = 0 THEN 1 ELSE 2 * Pow2(n - 1)

\* mutant: without a webhook main returns after the report
SendSkipReturn ==
  /\ pc = "send"
  /\ ~webhook
  /\ delivery' = "skipped"
  /\ pc' = "done"
  /\ UNCHANGED <<feeds, report, webhook, file, clock, run, sent_hashes, task, result,
                 all_candidates, candidates, top_entries, posts, sleeps, log>>

\* if not FEISHU_WEBHOOK_URL: return
SendSkip ==
  /\ pc = "send"
  /\ ~webhook
  /\ delivery' = "skipped"
  /\ pc' = "persist"
  /\ UNCHANGED <<feeds, report, webhook, file, clock, run, sent_hashes, task, result,
                 all_candidates, candidates, top_entries, posts, sleeps, log>>

\* mutant: the final failure is raised to the caller
PostRaising(outcome) ==
  /\ pc = "send"
  /\ webhook
  /\ Len(posts) < SEND_ATTEMPTS
  /\ LET attempt == Len(posts)
         last == (attempt + 1 = SEND_ATTEMPTS)
     IN /\ posts' = Append(posts, outcome)
        /\ sleeps' = IF outcome = "exc" /\ attempt < 2
                       THEN Append(sleeps, Pow2(attempt))
                       ELSE sleeps
        /\ delivery' = IF outcome = "ok" THEN "ok"
                       ELSE IF last THEN "failed" ELSE delivery
        /\ pc' = IF outcome = "ok" THEN "persist"
                 ELSE IF last THEN "crashed" ELSE pc
  /\ UNCHANGED <<feeds, report, webhook, file, clock, run, sent_hashes, task, result,
                 all_candidates, candidates, top_entries, log>>

\* mutant: no return after the accepted attempt
PostNoReturn(outcome) ==
  /\ pc = "send"
  /\ webhook
  /\ Len(posts) < SEND_ATTEMPTS
  /\ LET attempt == Len(posts)
         last == (attempt + 1 = SEND_ATTEMPTS)
     IN /\ posts' = Append(posts, outcome)
        /\ sleeps' = IF outcome = "exc" /\ attempt < 2
                       THEN Append(sleeps, Pow2(attempt))
                       ELSE sleeps
        /\ delivery' = IF outcome = "ok" THEN "ok"
                       ELSE IF last /\ delivery # "ok" THEN "failed" ELSE delivery
        /\ pc' = IF last THEN "persist" ELSE pc
  /\ UNCHANGED <<feeds, report, webhook, file, clock, run, sent_hashes, task, result,
                 all_candidates, candidates, top_entries, log>>

\* One pass of "for attempt in range(3)". outcome is what the sink did:
\*   "ok"   HTTP success and code == 0: logged as pushed, return
\*   "code" HTTP success and code # 0: warning, next attempt at once
\*   "exc"  requests.post, raise_for_status or resp.json raised: warning,
\*          time.sleep(2 ** attempt) unless it was the last attempt
\* After the last pass the final failure is logged and the function returns.
Post(outcome) ==
  /\ pc = "send"
  /\ webhook
  /\ Len(posts) < SEND_ATTEMPTS
  /\ LET attempt == Len(posts)
         last == (attempt + 1 = SEND_ATTEMPTS)
     IN /\ posts' = Append(posts, outcome)
        /\ sleeps' = IF outcome = "exc" /\ attempt < 2
                       THEN Append(sleeps, Pow2(attempt))
                       ELSE sleeps
        /\ delivery' = IF outcome = "ok" THEN "ok"
                       ELSE IF last THEN "failed" ELSE delivery
        /\ pc' = IF outcome = "ok" \/ last THEN "persist" ELSE pc
  /\ UNCHANGED <<feeds, report, webhook, file, clock, run, sent_hashes, task, result,
                 all_candidates, candidates, top_entries, log>>

\* ------------------------------------------------------------ main, step 5
\* mutant: the fingerprints of every candidate
NewHashesOfCandidates(entries) == {candidates[i].hash : i \in 1..Len(candidates)}

\* new_hashes = {e["hash"] for e in top_entries}
NewHashes(entries) == {entries[i].hash : i \in 1..Len(entries)}

\* mutant: the update is skipped unless the push succeeded
PersistIfDelivered ==
  /\ pc = "persist"
  /\ file' = IF delivery = "failed" THEN file
             ELSE SavedFile(LoadedSet(file) \cup NewHashes(top_entries))
  /\ log' = IF delivery = "failed" THEN [log EXCEPT !.response = NoReport]
            ELSE [log EXCEPT !.loads = @ + 1, !.saves = @ + 1,
                             !.response = NoReport]
  /\ report' = NoReport
  /\ pc' = "done"
  /\ UNCHANGED <<feeds, webhook, clock, run, sent_hashes, task, result,
                 all_candidates, candidates, top_entries, posts, sleeps, delivery>>

\* mutant: the new fingerprints are written without the reload
PersistOverwrite ==
  /\ pc = "persist"
  /\ file' = SavedFile(NewHashes(top_entries))
  /\ log' = [log EXCEPT !.saves = @ + 1, !.response = NoReport]
  /\ report' = NoReport
  /\ pc' = "done"
  /\ UNCHANGED <<feeds, webhook, clock, run, sent_hashes, task, result,
                 all_candidates, candidates, top_entries, posts, sleeps, delivery>>

\* sent_hashes = load_sent_hashes(); sent_hashes.update(new_hashes);
\* save_sent_hashes(sent_hashes); main returns, and its report is gone
Persist ==
  /\ pc = "persist"
  /\ file' = SavedFile(LoadedSet(file) \cup NewHashes(top_entries))
  /\ log' = [log EXCEPT !.loads = @ + 1, !.saves = @ + 1,
                        !.response = NoReport]
  /\ report' = NoReport
  /\ pc' = "done"
  /\ UNCHANGED <<feeds, webhook, clock, run, sent_hashes, task, result,
                 all_candidates, candidates, top_entries, posts, sleeps, delivery>>

\* ------------------------------------------------------------ the next invocation
Ended == pc \in {"done", "exited", "crashed"}

\* main() is started again (the scheduler's next run), same feeds
NextRun ==
  /\ Ended
  /\ run < MaxRuns
  /\ run' = run + 1
  /\ \E now \in clock..Min(clock + 1, MaxClock) : clock' = now
  /\ pc' = "main"
  /\ sent_hashes' = {}
  /\ task' = [u \in URLS |-> "idle"]
  /\ result' = [u \in URLS |-> <<>>]
  /\ all_candidates' = <<>>
  /\ candidates' = <<>>
  /\ top_entries' = <<>>
  /\ posts' = <<>>
  /\ sleeps' = <<>>
  /\ delivery' = "none"
  /\ report' = NoReport
  /\ log' = FreshLog(file, IF log.saves > 0 THEN NewHashes(top_entries) ELSE {})
  /\ UNCHANGED <<feeds, webhook, file>>

Next ==
  \/ NoSources
  \/ BeginFetch
  \/ \E u \in URLS : TaskStart(u)
  \/ \E u \in URLS : TaskFinish(u)
  \/ \E u \in URLS : Collect(u)
  \/ FetchReturn
  \/ CheckCandidates
  \/ ScoreFail
  \/ ScoreCrash
  \/ \E scores \in OracleScores(candidates) : ScoreReturn(scores)
  \/ CheckTopEntries
  \/ SynthFail
  \/ SynthCrash
  \/ \E response \in OracleReports(top_entries, Today(clock)) :
       SynthReturn(response)
  \/ SendSkip
  \/ \E outcome \in {"ok", "code", "exc"} : Post(outcome)
  \/ Persist
  \/ NextRun

Spec == Init /\ [][Next]_vars

\* ------------------------------------------------------------ the scoring stage
\* One feed with four fresh entries, and an oracle that may return any array
\* of at most MaxResp {link, score} objects over the candidates' links and a
\* link that is no candidate's.
FeedFour == << Entry(1, Naive(0)), Entry(2, Naive(0)),
              Entry(3, Naive(0)), Entry(4, Naive(0)) >>

WideScores(entries) ==
  UNION {[1..n -> [link : Links(entries) \cup UnknownLinks, score : 1..MaxScore]] :
           n \in 0..MaxResp}

InitScore == InitWith({<<FeedFour>>}, {AbsentFile})

NextScore ==
  \/ BeginFetch
  \/ \E u \in URLS : TaskStart(u)
  \/ \E u \in URLS : TaskFinish(u)
  \/ \E u \in URLS : Collect(u)
  \/ FetchReturn
  \/ CheckCandidates
  \/ /\ pc = "score"
     /\ \E scores \in WideScores(candidates) : ScoreReturn(scores)

SpecScore == InitScore /\ [][NextScore]_vars

\* ------------------------------------------------------------ the fetch stage
\* Two URLs: a feed of 0..MaxFeedLen fresh entries with links 1, 2, ..., and
\* FeedA.
BigFeed(n) == [i \in 1..n |-> Entry(i, Naive(0))]

InitAgg == InitWith({<<BigFeed(n), FeedA>> : n \in 0..MaxFeedLen}, {AbsentFile})

NextAgg ==
  \/ BeginFetch
  \/ \E u \in URLS : TaskStart(u)
  \/ \E u \in URLS : TaskFinish(u)
  \/ \E u \in URLS : Collect(u)
  \/ FetchReturn

SpecAgg == InitAgg /\ [][NextAgg]_vars

\* One URL serving one fresh entry with a summary of 0..MaxSummaryLen
\* characters.
InitSummary ==
  InitWith({<< <<SummaryEntry(1, Naive(0), n)>> >> : n \in 0..MaxSummaryLen},
           {AbsentFile})

SpecSummary == InitSummary /\ [][NextAgg]_vars

\* ------------------------------------------------------------ the report stage
\* One feed, one scoring answer, and an oracle that may return a report with
\* any of its three keys left out, "items" null or an array of at most
\* MaxItems items, each item with any of the four keys that are repaired left
\* out and, of the six others, none, "link" or all six.
MissingChoices ==
  {r \cup o : r \in SUBSET DOMAIN ItemDefault,
              o \in {{}, {"link"}, ItemFields \ DOMAIN ItemDefault}}

ItemLists ==
  UNION {[1..n -> {Item(m) : m \in MissingChoices}] : n \in 0..MaxItems}

WideReports(today) ==
  {[k \in K |-> [date |-> today - 1, theme |-> "oracle", items |-> v][k]] :
     K \in SUBSET {"date", "theme", "items"},
     v \in {JsonNull} \cup {List(l) : l \in ItemLists}}

InitReport == InitWith({<<FeedFour>>}, {AbsentFile}) /\ webhook

NextReport ==
  \/ BeginFetch
  \/ \E u \in URLS : TaskStart(u)
  \/ \E u \in URLS : TaskFinish(u)
  \/ \E u \in URLS : Collect(u)
  \/ FetchReturn
  \/ CheckCandidates
  \/ ScoreReturn(ResponseFor(Links(candidates)))
  \/ CheckTopEntries
  \/ /\ pc = "synth"
     /\ \E response \in WideReports(Today(clock)) : SynthReturn(response)

SpecReport == InitReport /\ [][NextReport]_vars

\* ------------------------------------------------------------ the worker pool
\* 1..MaxPoolSources URLs, more than the pool has workers: the first serves
\* one fresh entry, the others serve feeds without entries.
PoolFeeds(n) == [u \in 1..n |-> IF u = 1 THEN <<Entry(1, Naive(0))>> ELSE <<>>]

\* the history of the fetch tasks is not kept
InitPool ==
  InitVars({PoolFeeds(n) : n \in 1..MaxPoolSources}, {AbsentFile}, FALSE)

NextPool ==
  \/ BeginFetch
  \/ \E u \in URLS : TaskStart(u)
  \/ \E u \in URLS : TaskFinish(u)
  \/ \E u \in URLS : Collect(u)
  \/ FetchReturn
  \/ CheckCandidates
  \/ \E scores \in OracleScores(candidates) : ScoreReturn(scores)
  \/ CheckTopEntries
  \/ \E response \in OracleReports(top_entries, Today(clock)) :
       SynthReturn(response)
  \/ SendSkip
  \/ \E outcome \in {"ok", "code", "exc"} : Post(outcome)
  \/ Persist

SpecPool == InitPool /\ [][NextPool]_vars

\* ------------------------------------------------------------ claims
\* what the claims read off a state
Stored == LoadedSet(file)

\* sha256(link) of each entry of the scored top-K set
TopFingerprints == {hash_link(top_entries[i].link) : i \in 1..Len(top_entries)}

SendReturned == delivery \in {"ok", "failed", "skipped"}

\* C1: in a run where scoring returned a non-empty top-K set and synthesis
\* returned, main goes on through send_to_feishu to the update of the
\* fingerprint file and nowhere else; the file is saved only after
\* send_to_feishu has returned; and when main has returned, the file has been
\* saved once and holds the fingerprints of the top-K entries -- after a
\* successful push, after three failed attempts, and after a skipped push.
C1_SavedAfterSend ==
  /\ log.synthReturned =>
       /\ top_entries # <<>>
       /\ pc \in {"send", "persist", "done"}
       /\ pc = "send" => ~SendReturned
       /\ pc \in {"persist", "done"} => SendReturned
       /\ pc = "done" => log.saves = 1 /\ TopFingerprints \subseteq Stored
  /\ log.saves > 0 => log.synthReturned /\ SendReturned

C1_Witness ==
  /\ pc = "done"
  /\ log.synthReturned
  /\ delivery = "failed"
  /\ Len(posts) = SEND_ATTEMPTS
  /\ log.saves = 1
  /\ TopFingerprints \subseteq Stored
  /\ ~(TopFingerprints \subseteq log.file0)

\* C2 as stated: once delivery has failed on every attempt the run does not
\* end abnormally, save_sent_hashes is not called and the fingerprint file
\* keeps its pre-run contents.
C2_Original ==
  delivery = "failed" =>
    /\ pc \notin {"exited", "crashed"}
    /\ log.saves = 0
    /\ Stored = log.file0

\* C2 amended: once delivery has failed on every attempt (three posts, none
\* accepted) the run does not end abnormally and the update of the fingerprint
\* file is not suppressed: main goes on to it, and when main has returned
\* save_sent_hashes has been called once and the file holds its pre-run
\* fingerprints and those of the top-K entries.
C2_FailureNotFatalAndStillSaved ==
  delivery = "failed" =>
    /\ Len(posts) = SEND_ATTEMPTS
    /\ \A i \in 1..Len(posts) : posts[i] # "ok"
    /\ pc \in {"persist", "done"}
    /\ pc = "persist" => log.saves = 0
    /\ pc = "done" => /\ log.saves = 1
                      /\ Stored = log.file0 \cup TopFingerprints

C2_Witness ==
  /\ delivery = "failed"
  /\ pc = "done"
  /\ log.saves = 1
  /\ Stored # log.file0

\* C3: after a failed scoring call the run has ended (sys.exit or traceback)
\* with no synthesis call, no post and no save; after a failed synthesis call
\* the run has ended with no post and no save; in both cases the fingerprints
\* in the file are those of before the run.
C3_OracleFailureIsFatalAndClean ==
  /\ log.scoreFailed =>
       /\ pc \in {"exited", "crashed"}
       /\ log.synthCalls = 0
       /\ posts = <<>> /\ delivery = "none"
       /\ log.saves = 0
       /\ Stored = log.file0
  /\ log.synthFailed =>
       /\ pc \in {"exited", "crashed"}
       /\ log.scoreCalls = 1 /\ log.synthCalls = 1
       /\ posts = <<>> /\ delivery = "none"
       /\ log.saves = 0
       /\ Stored = log.file0

C3_Witness ==
  /\ log.synthFailed
  /\ pc = "exited"
  /\ webhook
  /\ top_entries # <<>>
  /\ ~(TopFingerprints \subseteq Stored)

\* C4: when a run has saved the fingerprint file, the file holds exactly the
\* fingerprints it held before the run and sha256(link) of every top-K entry;
\* the fingerprint of a candidate that is not in the top-K set is in the file
\* only if it was there before the run.
C4_StoreIsOldPlusTopK ==
  log.saves > 0 =>
    /\ Stored = log.file0 \cup TopFingerprints
    /\ \A i \in 1..Len(candidates) :
         (candidates[i].link \notin Links(top_entries)
            /\ hash_link(candidates[i].link) \notin log.file0)
         => hash_link(candidates[i].link) \notin Stored

C4_Witness ==
  /\ pc = "done"
  /\ log.saves = 1
  /\ log.file0 # {}
  /\ TopFingerprints # {}
  /\ \E i \in 1..Len(candidates) : candidates[i].link \notin Links(top_entries)

\* the earlier run completed and updated the fingerprint file
PrevRunSaved == run > 1 /\ log.prevSaved # {}

\* fetch_rss_entries has returned to main
FetchDone == pc \notin {"main", "fetching"}

\* fetch_rss_entries has just returned: its frame is still in the state
Fetched == pc = "fetched"

\* C5 as stated: in a run that follows a run which completed and updated the
\* file, over the same feeds, the fetcher returns no candidate.
C5_Original ==
  (PrevRunSaved /\ FetchDone) => candidates = <<>>

\* C5 amended: in a run that follows a run which completed and updated the
\* file, over the same feeds, no fetch result and no candidate carries a
\* fingerprint the earlier run saved (that of one of its top-K entries) or one
\* that was in the file before.
C5_SavedEntriesDoNotReturn ==
  PrevRunSaved =>
    /\ log.prevSaved \subseteq log.file0
    /\ \A u \in URLS : \A i \in 1..Len(result[u]) :
         hash_link(result[u][i].link) \notin log.file0
    /\ \A i \in 1..Len(candidates) :
         hash_link(candidates[i].link) \notin log.file0

\* an entry the earlier run saved is served again and is filtered out, while
\* another entry is a candidate again
C5_Witness ==
  /\ PrevRunSaved
  /\ Fetched
  /\ candidates # <<>>
  /\ \E u \in log.up : \E i \in 1..Len(feeds[u]) :
       /\ feeds[u][i].link # 0
       /\ hash_link(feeds[u][i].link) \in log.prevSaved
       /\ is_recent(feeds[u][i].published, HOURS_WINDOW, log.readAt[u])

\* C7: send_to_feishu posts at most three times and never again after an
\* accepted post (an accepted post is the last one); it reports success
\* exactly when the last post was accepted -- so after two failures and an
\* acceptance, with three posts made -- and reports the final failure exactly
\* when three posts were made and none accepted, and then it has returned to
\* main (which goes on to step 5), with no exception.
C7_AtMostThreeAttempts ==
  /\ Len(posts) <= SEND_ATTEMPTS
  /\ \A i \in 1..Len(posts) : posts[i] = "ok" => i = Len(posts)
  /\ delivery = "ok" <=> (posts # <<>> /\ posts[Len(posts)] = "ok")
  /\ delivery = "failed" <=>
       (Len(posts) = SEND_ATTEMPTS /\ \A i \in 1..Len(posts) : posts[i] # "ok")
  /\ delivery \in {"ok", "failed"} => pc \in {"persist", "done"}
  /\ (pc = "send" /\ webhook) => delivery = "none" /\ Len(posts) < SEND_ATTEMPTS

C7_Witness ==
  /\ Len(posts) = SEND_ATTEMPTS
  /\ posts[1] = "exc" /\ posts[2] = "code" /\ posts[3] = "ok"
  /\ delivery = "ok"
  /\ pc = "persist"

\* the fetch of URL u failed: the request failed, or an entry raised while
\* the entries were processed
RaisesInLoop(entries) ==
  \E i \in 1..Len(entries) : entries[i].raises /\ entries[i].link # 0

FetchFailed(u) == u \notin log.up \/ RaisesInLoop(feeds[u])

RECURSIVE MergeOf(_, _)
\* the results of the URLs of order that did not fail, in that order
MergeOf(order, i) ==
  IF i > Len(order) THEN <<>>
  ELSE (IF FetchFailed(order[i])
          THEN <<>>
          ELSE fetch_single_feed(feeds[order[i]], TRUE, sent_hashes,
                                 log.readAt[order[i]]))
       \o MergeOf(order, i + 1)

\* C8 as stated: a source whose fetch fails at any point (request, or while its
\* entries are processed) contributes no entry; the merged candidates are those
\* of the other sources, as if the failing one were not configured; and the
\* batch is never aborted (the fetch stage ends with every task collected).
C8_Original ==
  /\ \A u \in URLS :
       (task[u] \in {"finished", "collected"} /\ FetchFailed(u))
         => result[u] = <<>>
  /\ pc \in {"fetching", "fetched"} => all_candidates = MergeOf(log.order, 1)
  /\ Fetched /\ URLS # {} => \A u \in URLS : task[u] = "collected"

\* what does hold: a source whose request fails contributes no entry, and the
\* sources that are up contribute what they would contribute alone
C8_RequestFailureIsolated ==
  /\ \A u \in URLS :
       (task[u] \in {"finished", "collected"} /\ u \notin log.up)
         => result[u] = <<>>
  /\ \A u \in log.up :
       result[u] = fetch_single_feed(feeds[u], TRUE, sent_hashes, log.readAt[u])
  /\ Fetched /\ URLS # {} => \A u \in URLS : task[u] = "collected"

\* entry i of feeds[u] reached the recency test of a finished, successful fetch
ReachedRecency(u, i) ==
  /\ task[u] \in {"finished", "collected"}
  /\ u \in log.up
  /\ feeds[u][i].link # 0
  /\ \A j \in 1..i : ~feeds[u][j].raises
  /\ hash_link(feeds[u][i].link) \notin sent_hashes

Kept(u, i) == \E k \in 1..Len(result[u]) :
  /\ result[u][k].link = feeds[u][i].link
  /\ result[u][k].published = feeds[u][i].published

\* C9: of the entries that reach the recency test of a fetch that read the
\* clock at now, one published exactly at now - 48h is kept, one published at
\* now - 48h - 1s is dropped, and one whose date cannot be parsed is dropped.
C9_RecencyEdgeInclusive ==
  \A u \in URLS : \A i \in 1..Len(feeds[u]) :
    ReachedRecency(u, i) =>
      LET p == feeds[u][i].published
          now == log.readAt[u]
      IN /\ (p.kind # "garbage" /\ Instant(p) = now - HOURS_WINDOW * 3600)
              => Kept(u, i)
         /\ (p.kind # "garbage" /\ Instant(p) = now - HOURS_WINDOW * 3600 - 1)
              => ~Kept(u, i)
         /\ p.kind = "garbage" => ~Kept(u, i)

C9_Witness ==
  \E u \in URLS : \E i \in 1..Len(feeds[u]) :
    /\ ReachedRecency(u, i)
    /\ feeds[u][i].published.kind = "aware"
    /\ Instant(feeds[u][i].published) = log.readAt[u] - HOURS_WINDOW * 3600
    /\ Kept(u, i)
    /\ \E j \in 1..Len(all_candidates) : all_candidates[j].link = feeds[u][i].link

\* score_entries has just returned: the "scores" array is still in the state
ScoreReturned == pc = "scored"

\* positions of the returned array whose link is a candidate's
Usable == {i \in 1..Len(log.scores) : log.scores[i].link \in Links(candidates)}

InTop(i) == \E k \in 1..Len(top_entries) :
  /\ top_entries[k].link = log.scores[i].link
  /\ top_entries[k].score = log.scores[i].score

\* the returned array names no link twice
DistinctLinks ==
  \A i, j \in 1..Len(log.scores) :
    log.scores[i].link = log.scores[j].link => i = j

\* C6 as stated, for a returned array that names no link twice: score_entries
\* returns the k = 3 highest-scoring of the returned entries whose link is a
\* candidate's (all of them when fewer than 3), in descending score order; a
\* returned entry whose link is no candidate's is left out and takes none of
\* the 3 places.
C6_Original ==
  (ScoreReturned /\ DistinctLinks) =>
    /\ Len(top_entries) = Min(3, Cardinality(Usable))
    /\ \A k \in 1..Len(top_entries) : \E i \in Usable : 
         /\ top_entries[k].link = log.scores[i].link
         /\ top_entries[k].score = log.scores[i].score
    /\ \A k \in 1..(Len(top_entries) - 1) :
         top_entries[k].score >= top_entries[k + 1].score
    /\ \A i \in Usable : ~InTop(i) =>
         \A k \in 1..Len(top_entries) : top_entries[k].score >= log.scores[i].score

\* C10: when fetch_rss_entries has returned, the candidates are the first
\* min(n, 60) of the n merged entries, in the same order; 100 merged entries
\* give 60 candidates.
C10_TruncatedPrefix ==
  Fetched =>
    /\ Len(candidates) = Min(Len(all_candidates), 60)
    /\ \A i \in 1..Len(candidates) : candidates[i] = all_candidates[i]
    /\ Len(all_candidates) = 100 => Len(candidates) = 60

C10_Witness ==
  /\ Fetched
  /\ Len(all_candidates) = 100
  /\ Len(candidates) = 60
  /\ candidates[60] = all_candidates[60]
  /\ Len(log.order) = 2

\* ------------------------------------------------------------ C11, C12
Repaired == pc = "send" /\ log.synthReturned

\* the keys validate_and_fix_report gives a value when they are missing
FilledKeys == {"title", "source_type", "erp_relevance", "summary"}

\* the items of the response, when "items" is there and is an array
SuppliedItems ==
  IF "items" \in DOMAIN log.response /\ log.response["items"].list
    THEN log.response["items"].elems
    ELSE <<>>

\* key by key: the value the oracle supplied, else the default
KeptOrDefault(fixed, raw, defaults) ==
  /\ DOMAIN fixed = DOMAIN raw \cup DOMAIN defaults
  /\ \A k \in DOMAIN fixed :
       fixed[k] = IF k \in DOMAIN raw THEN raw[k] ELSE defaults[k]

ItemsRepaired ==
  /\ report["items"].list
  /\ Len(report["items"].elems) = Len(SuppliedItems)
  /\ \A i \in 1..Len(SuppliedItems) :
       KeptOrDefault(report["items"].elems[i], SuppliedItems[i],
                     [k \in FilledKeys |->
                        CASE k = "title" -> "unknown title"
                          [] k = "source_type" -> "unknown"
                          [] k = "erp_relevance" -> "blue low"
                          [] k = "summary" -> "no summary"])

\* C11 as stated: what is missing gets its default, and every key the oracle
\* supplied, "items" included, keeps the value the oracle gave it
C11_Original ==
  Repaired =>
    /\ ItemsRepaired
    /\ \A k \in DOMAIN log.response \ {"items"} : report[k] = log.response[k]
    /\ "items" \in DOMAIN log.response =>
         report["items"].list = log.response["items"].list

\* C11: in the report generate_daily_report returns, a missing date is the
\* UTC+8 date of the call, a missing theme the default theme, missing items
\* the empty list, and in every item a missing title, source_type,
\* erp_relevance or summary is its default string; every other key the
\* oracle supplied, at the top and in each item, has the oracle's value and
\* no other key is added -- except that "items" supplied as something that
\* is no list is replaced by the empty list.
C11_RepairFillsAndKeeps ==
  Repaired =>
    /\ DOMAIN report = DOMAIN log.response \cup {"date", "theme", "items"}
    /\ report["date"] = IF "date" \in DOMAIN log.response
                          THEN log.response["date"]
                          ELSE (clock + 28800) \div 86400
    /\ report["theme"] = IF "theme" \in DOMAIN log.response
                           THEN log.response["theme"]
                           ELSE "AI tech news"
    /\ ItemsRepaired

C11_Witness ==
  /\ Repaired
  /\ "theme" \notin DOMAIN log.response
  /\ "date" \in DOMAIN log.response
  /\ Len(SuppliedItems) = 2
  /\ DOMAIN SuppliedItems[1] = ItemFields \ {"summary"}
  /\ DOMAIN SuppliedItems[2] = ItemFields

\* C12 as stated: every item of the report send_to_feishu is called with has
\* a value for each of the ten keys, so that no field of the card is None
C12_Original ==
  Repaired =>
    \A i \in 1..Len(report["items"].elems) :
      /\ DOMAIN report["items"].elems[i] = ItemFields
      /\ \A f \in ItemFields : CardItem(report["items"].elems[i])[f] # "None"

\* ------------------------------------------------------------ C13, C14
\* nothing after the fetch stage has happened, and the file holds the
\* fingerprints it held when the run began
NothingSentOrSaved ==
  /\ log.synthCalls = 0
  /\ posts = <<>>
  /\ delivery = "none"
  /\ log.saves = 0
  /\ LoadedSet(file) = log.file0

PastFetch == pc \notin {"main", "fetching", "fetched"}

PastScoring ==
  /\ pc \notin {"main", "fetching", "fetched", "score", "scored"}
  /\ ~log.scoreFailed

\* C13: when fetch_rss_entries returned no candidate, main has returned
\* normally, call_json was never called, nothing was posted and the
\* fingerprint file was not saved; when score_entries returned no entry, main
\* has returned normally after the one scoring call, the report was never
\* asked for, nothing was posted and the file was not saved. In both cases
\* the file holds the fingerprints it held before (load_sent_hashes may have
\* created it, empty).
C13_EarlyExit ==
  /\ PastFetch /\ candidates = <<>> =>
       pc = "done" /\ log.scoreCalls = 0 /\ NothingSentOrSaved
  /\ PastScoring /\ candidates # <<>> /\ top_entries = <<>> =>
       pc = "done" /\ log.scoreCalls = 1 /\ NothingSentOrSaved

C13_Witness ==
  /\ pc = "done"
  /\ candidates # <<>>
  /\ top_entries = <<>>
  /\ log.file0 # {}

\* C14: without FEISHU_WEBHOOK_URL, send_to_feishu posts nothing, sleeps
\* nothing and returns, main goes on to step 5, and when main has returned
\* the file has been saved once and holds what it held before plus the
\* fingerprints of top_entries -- the same as after a push that succeeded.
C14_NoWebhookSkipsAndSaves ==
  /\ ~webhook => posts = <<>> /\ sleeps = <<>> /\ delivery \in {"none", "skipped"}
  /\ ~webhook /\ log.synthReturned =>
       /\ pc \in {"send", "persist", "done"}
       /\ pc # "send" => delivery = "skipped"
  /\ pc = "done" /\ delivery \in {"ok", "skipped"} =>
       /\ log.saves = 1
       /\ LoadedSet(file) =
            log.file0 \cup {hash_link(top_entries[i].link) : i \in 1..Len(top_entries)}

C14_Witness ==
  /\ ~webhook
  /\ pc = "done"
  /\ delivery = "skipped"
  /\ log.saves = 1
  /\ log.file0 # {}

\* ------------------------------------------------------------ C15
InFlight == {u \in DOMAIN feeds : task[u] = "running"}

\* submitted and not yet collected by main
Pending == {u \in DOMAIN feeds : task[u] \in {"queued", "running", "finished"}}

\* C15: with one to MaxPoolSources (more than MAX_WORKERS) URLs, at most
\* MAX_WORKERS calls of fetch_single_feed are running at any moment; a fetch
\* task is pending only inside fetch_rss_entries; and main makes its calls
\* one after the other: no oracle call and no post while a fetch is pending,
\* the scoring call before the report call, the report call before the
\* first post.
C15_PoolBoundedStagesSequential ==
  /\ Cardinality(InFlight) <= MAX_WORKERS
  /\ Pending # {} =>
       pc = "fetching" /\ log.scoreCalls = 0 /\ log.synthCalls = 0 /\ posts = <<>>
  /\ pc = "score" => log.scoreCalls = 0 /\ log.synthCalls = 0 /\ posts = <<>>
  /\ pc = "synth" => log.scoreCalls = 1 /\ log.synthCalls = 0 /\ posts = <<>>
  /\ pc = "send" => log.scoreCalls = 1 /\ log.synthCalls = 1
  /\ posts # <<>> => log.scoreCalls = 1 /\ log.synthCalls = 1

C15_Witness ==
  /\ Cardinality(InFlight) = MAX_WORKERS
  /\ \E u \in DOMAIN feeds : task[u] = "queued"

\* ------------------------------------------------------------ C16
\* C16 as stated: the candidates score_entries is called with have pairwise
\* different links
C16_Original ==
  pc = "score" =>
    \A i, j \in 1..Len(candidates) :
      candidates[i].link = candidates[j].link => i = j

\* ------------------------------------------------------------ C17
\* a step of the run that loads or saves the fingerprint file
StoreAccess ==
  /\ run' = run
  /\ file' # file \/ log'.loads # log.loads \/ log'.saves # log.saves

NoTaskSubmitted == \A u \in DOMAIN feeds : task[u] = "idle"

\* C17: the fingerprint file is loaded or saved by main only, in two places:
\* in fetch_rss_entries before any URL is submitted to the pool (after the
\* step every task is still waiting, none has started), and in step 5, after
\* send_to_feishu has returned and with no fetch task left. No step of a
\* fetch task, of an oracle call or of a push touches it.
C17_StoreAccessOnMainFlow ==
  [][StoreAccess =>
       \/ /\ pc = "main"
          /\ NoTaskSubmitted
          /\ \A u \in DOMAIN feeds : task'[u] = "queued"
          /\ log.scoreCalls = 0 /\ log.synthCalls = 0 /\ posts = <<>>
       \/ /\ pc = "persist"
          /\ NoTaskSubmitted
          /\ delivery \in {"ok", "failed", "skipped"}
          /\ pc' = "done"]_vars

C17_Witness ==
  /\ pc = "done"
  /\ log.loads = 2
  /\ log.saves = 1
  /\ delivery = "ok"
  /\ Cardinality(DOMAIN feeds) = 2

\* ------------------------------------------------------------ C18
\* C18 as stated: a run (with RSS_URLS configured) has loaded the file once
\* as soon as it is past its start, never more, and has saved it once at most
C18_Original ==
  DOMAIN feeds # {} =>
    /\ log.loads <= 1
    /\ log.saves <= 1
    /\ pc # "main" => log.loads = 1

\* ------------------------------------------------------------ C19
FailedPosts == Len(SelectSeq(posts, LAMBDA o : o # "ok"))

\* C19 as stated: after the first failed attempt the function has slept 2 s,
\* after the second 2 s and 4 s, whatever the failure was, and nothing after
\* the third
C19_Original ==
  sleeps = [i \in 1..Min(FailedPosts, SEND_ATTEMPTS - 1) |-> Pow2(i)]

\* ------------------------------------------------------------ C20
\* position of the candidate with this link
CandidateIndex(link) ==
  CHOOSE i \in 1..Len(candidates) : candidates[i].link = link

\* C20 as stated: of two returned entries with the same score, the one that
\* comes first in candidates comes first
C20_Original ==
  pc = "scored" =>
    \A i, j \in 1..Len(top_entries) :
      i < j /\ top_entries[i].score = top_entries[j].score =>
        CandidateIndex(top_entries[i].link) <= CandidateIndex(top_entries[j].link)

\* ------------------------------------------------------------ C21
RECURSIVE ResultsInOrder(_)
\* the results of the tasks, one after the other in the order given
ResultsInOrder(order) ==
  IF order = <<>> THEN <<>>
  ELSE result[Head(order)] \o ResultsInOrder(Tail(order))

\* where the feed of u carries this link
FeedIndex(u, link) ==
  CHOOSE i \in 1..Len(feeds[u]) : feeds[u][i].link = link

\* C21: while fetch_rss_entries runs, all_candidates is the results of the
\* tasks collected so far, each result whole and in one piece, in the order
\* they were collected, and it is not cut; the entries of a result are in
\* the order of their feed (each one later in the feed than the one before). When fetch_rss_entries has returned, every
\* submitted task has finished and been collected, even those that were
\* still waiting or running when the cap was reached, and only then the
\* merged list was cut to the cap.
C21_AllTasksDoneThenTruncated ==
  /\ pc \in {"fetching", "fetched"} =>
       /\ all_candidates = ResultsInOrder(log.order)
       /\ \A k, l \in 1..Len(log.order) : log.order[k] = log.order[l] => k = l
       /\ \A u \in DOMAIN feeds :
            /\ task[u] = "collected" <=> \E k \in 1..Len(log.order) : log.order[k] = u
            /\ \A i \in 1..(Len(result[u]) - 1) :
                 FeedIndex(u, result[u][i].link) < FeedIndex(u, result[u][i + 1].link)
  /\ pc = "fetching" => candidates = <<>>
  /\ pc = "fetched" =>
       /\ \A u \in DOMAIN feeds : task[u] = "collected"
       /\ Len(log.order) = Cardinality(DOMAIN feeds)
       /\ Len(candidates) <= MAX_CANDIDATES
       /\ candidates = SubSeq(all_candidates, 1, Len(candidates))

\* the large feed was collected first and reached the cap; the other task
\* was collected after it, and its entries are in the merged list
C21_Witness ==
  /\ pc = "fetched"
  /\ log.order = <<1, 2>>
  /\ Len(result[1]) >= MAX_CANDIDATES
  /\ Len(result[2]) = 2
  /\ Len(all_candidates) = Len(result[1]) + 2
  /\ Len(candidates) = MAX_CANDIDATES

\* ------------------------------------------------------------ C22
\* C22 as stated: the summary of every candidate a fetch returns has at most
\* 500 characters, the marker included
C22_Original ==
  \A u \in DOMAIN feeds : \A i \in 1..Len(result[u]) :
    result[u][i].summary.chars + result[u][i].summary.marker <= 500

\* ------------------------------------------------------------ C23
\* C23: at every moment of every run, whether it goes on to save, returns
\* early or ends in a failure of the oracle, the fingerprint file holds every
\* fingerprint it held when the run began, and every fingerprint the run
\* before it saved.
C23_StoreOnlyGrows ==
  /\ log.file0 \subseteq LoadedSet(file)
  /\ log.prevSaved \subseteq LoadedSet(file)

\* a second run has added a fingerprint to a file that was not empty
C23_Witness ==
  /\ run = 2
  /\ pc = "done"
  /\ log.saves = 1
  /\ log.prevSaved # {}
  /\ log.file0 # LoadedSet(file)

====
